---- MODULE Spec2Model ----
(***************************************************************************)
(* A model of function_app.py: the ToolProperty descriptor class and its   *)
(* to_dict serialisation, the tool schemas built at import time, and the   *)
(* five MCP tool handlers with the blob bindings they read and write.      *)
(*                                                                         *)
(* Python values are tagged tuples, the tag first:                         *)
(*   <<"null">>  <<"bool", b>>  <<"num", n>>  <<"str", s>>                 *)
(*   <<"arr", <<v1, ..., vn>> >>                                           *)
(*   <<"obj", << <<k1, v1>>, ..., <<kn, vn>> >> >>   (a dict, in insertion *)
(*   order, keys unique)                                                   *)
(* JSON text is a sequence of tokens (the lexical layer, quoting and       *)
(* escaping, is not modelled): punctuation <<"p", c>> and scalars.         *)
(***************************************************************************)
EXTENDS Integers, Sequences, FiniteSets, TLC

VARIABLES
    store,      \* blob storage: resolved path |-> blob content
    tool,       \* the tool of the last invocation ("" before any)
    payload,    \* the decoded invocation context of the last invocation
    outcome,    \* how the last invocation ended
    saved,      \* history: snippet name |-> the snippet of the last save_snippet
                \* invocation that gave that name and a snippet, both non-empty
    props,      \* a descriptor sequence handed to the schema builder
    document,   \* json.dumps([prop.to_dict() for prop in props]), once built
    self,       \* the descriptor of the last to_dict call
    result      \* what that to_dict call returned

vars == <<store, tool, payload, outcome, saved, props, document, self, result>>

(***************************************************************************)
(* Python values                                                           *)
(***************************************************************************)
None == <<"null">>
JBool(b) == <<"bool", b>>
JNum(n) == <<"num", n>>
JStr(s) == <<"str", s>>
JArr(elems) == <<"arr", elems>>
JObj(pairs) == <<"obj", pairs>>

IsDict(v) == v[1] = "obj"
IsList(v) == v[1] = "arr"

Keys(d) == {d[2][i][1] : i \in 1..Len(d[2])}

\* d[k] for a dict d that has the key k
Lookup(d, k) == d[2][CHOOSE i \in 1..Len(d[2]) : d[2][i][1] = k][2]

\* Python truthiness: `not v` is ~Truthy(v)
Truthy(v) ==
    CASE v[1] = "null" -> FALSE
      [] v[1] = "bool" -> v[2]
      [] v[1] = "num"  -> v[2] # 0
      [] v[1] = "str"  -> v[2] # ""
      [] v[1] = "arr"  -> Len(v[2]) > 0
      [] v[1] = "obj"  -> Len(v[2]) > 0
      [] OTHER         -> TRUE

\* v[k]: the subscription of a value by a string key, which raises unless v
\* is a dict holding k
Subscript(v, k) ==
    IF IsDict(v)
    THEN IF k \in Keys(v) THEN <<"ok", Lookup(v, k)>> ELSE <<"raise", "KeyError">>
    ELSE <<"raise", "TypeError">>

\* v.get(k): None for a missing key; only a dict has the method
DictGet(v, k) ==
    IF IsDict(v)
    THEN <<"ok", IF k \in Keys(v) THEN Lookup(v, k) ELSE None>>
    ELSE <<"raise", "AttributeError">>

DigitStr(n) ==
    CASE n = 0 -> "0" [] n = 1 -> "1" [] n = 2 -> "2" [] n = 3 -> "3"
      [] n = 4 -> "4" [] n = 5 -> "5" [] n = 6 -> "6" [] n = 7 -> "7"
      [] n = 8 -> "8" [] n = 9 -> "9"

\* format(v) as an f-string replacement field renders it, for the scalars
PyStr(v) ==
    CASE v[1] = "str"  -> v[2]
      [] v[1] = "null" -> "None"
      [] v[1] = "bool" -> IF v[2] THEN "True" ELSE "False"
      [] v[1] = "num"  -> DigitStr(v[2])

(***************************************************************************)
(* json.dumps and json.loads, on token sequences                           *)
(***************************************************************************)
P(c) == <<"p", c>>

IsP(tok, c) == tok[1] = "p" /\ tok[2] = c

RECURSIVE json_dumps(_)
RECURSIVE DumpElems(_, _)
RECURSIVE DumpMembers(_, _)

\* the elements i.. of a list, comma-separated
DumpElems(elems, i) ==
    IF i > Len(elems) THEN <<>>
    ELSE (IF i > 1 THEN <<P(",")>> ELSE <<>>)
         \o json_dumps(elems[i]) \o DumpElems(elems, i + 1)

\* the key/value pairs i.. of a dict, in insertion order
DumpMembers(pairs, i) ==
    IF i > Len(pairs) THEN <<>>
    ELSE (IF i > 1 THEN <<P(",")>> ELSE <<>>)
         \o <<JStr(pairs[i][1]), P(":")>> \o json_dumps(pairs[i][2])
         \o DumpMembers(pairs, i + 1)

json_dumps(v) ==
    CASE v[1] = "arr" -> <<P("[")>> \o DumpElems(v[2], 1) \o <<P("]")>>
      [] v[1] = "obj" -> <<P("{")>> \o DumpMembers(v[2], 1) \o <<P("}")>>
      [] OTHER        -> <<v>>

\* d[k] = v on a dict's pairs: a key already present keeps its position
DictSet(pairs, k, v) ==
    IF \E i \in 1..Len(pairs) : pairs[i][1] = k
    THEN [i \in 1..Len(pairs) |-> IF pairs[i][1] = k THEN <<k, v>> ELSE pairs[i]]
    ELSE Append(pairs, <<k, v>>)

RECURSIVE ParseValue(_, _)
RECURSIVE ParseElems(_, _, _)
RECURSIVE ParseMembers(_, _, _)

\* each returns <<value, index of the first token after it>>
ParseElems(toks, i, acc) ==
    IF IsP(toks[i], "]") THEN <<JArr(acc), i + 1>>
    ELSE LET j == IF IsP(toks[i], ",") THEN i + 1 ELSE i
             r == ParseValue(toks, j)
         IN  ParseElems(toks, r[2], Append(acc, r[1]))

ParseMembers(toks, i, acc) ==
    IF IsP(toks[i], "}") THEN <<JObj(acc), i + 1>>
    ELSE LET j == IF IsP(toks[i], ",") THEN i + 1 ELSE i
             r == ParseValue(toks, j + 2)
         IN  ParseMembers(toks, r[2], DictSet(acc, toks[j][2], r[1]))

ParseValue(toks, i) ==
    IF IsP(toks[i], "[") THEN ParseElems(toks, i + 1, <<>>)
    ELSE IF IsP(toks[i], "{") THEN ParseMembers(toks, i + 1, <<>>)
    ELSE <<toks[i], i + 1>>

json_loads(toks) == ParseValue(toks, 1)[1]

\* equality of decoded documents: dicts compare by key, not by key order
RECURSIVE PyEq(_, _)
PyEq(a, b) ==
    IF a[1] # b[1] THEN FALSE
    ELSE CASE a[1] = "obj" ->
                /\ Len(a[2]) = Len(b[2])
                /\ Keys(a) = Keys(b)
                /\ \A k \in Keys(a) : PyEq(Lookup(a, k), Lookup(b, k))
           [] a[1] = "arr" ->
                /\ Len(a[2]) = Len(b[2])
                /\ \A i \in 1..Len(a[2]) : PyEq(a[2][i], b[2][i])
           [] OTHER -> a = b

(***************************************************************************)
(* str <-> bytes: a str is the sequence of its code points, and the blob   *)
(* holds their UTF-8 encoding                                              *)
(***************************************************************************)
Strings == {"", "hi", "é"}

CodePoints(s) ==
    CASE s = ""   -> <<>>
      [] s = "hi" -> <<104, 105>>
      [] s = "é"  -> <<233>>

StrOf(cps) == CHOOSE s \in Strings : CodePoints(s) = cps

RECURSIVE Utf8Encode(_)
Utf8Encode(cps) ==
    IF cps = <<>> THEN <<>>
    ELSE (IF cps[1] < 128 THEN <<cps[1]>>
          ELSE <<192 + (cps[1] \div 64), 128 + (cps[1] % 64)>>)
         \o Utf8Encode(Tail(cps))

RECURSIVE Utf8Decode(_)
Utf8Decode(bytes) ==
    IF bytes = <<>> THEN <<>>
    ELSE IF bytes[1] < 128
         THEN <<bytes[1]>> \o Utf8Decode(Tail(bytes))
         ELSE <<(bytes[1] - 192) * 64 + (bytes[2] - 128)>>
              \o Utf8Decode(Tail(Tail(bytes)))

\* what the blob output binding stores for a str handed to file.set
BlobOf(s) == Utf8Encode(CodePoints(s))

\* bytes.decode("utf-8")
decode(bytes) == StrOf(Utf8Decode(bytes))

(***************************************************************************)
(* Module constants and blob path templates (lines 9-13)                   *)
(***************************************************************************)
_SNIPPET_NAME_PROPERTY_NAME == "snippetname"
_SNIPPET_PROPERTY_NAME == "snippet"

Lit(s) == <<"lit", s>>
Arg(name) == <<"arg", name>>

_SNIPPET_BLOB_PATH ==
    <<Lit("snippets/"), Arg(_SNIPPET_NAME_PROPERTY_NAME), Lit(".json")>>
_SIMPLE_SENSOR_BLOB_PATH ==
    <<Lit("simple-sensor-data/"), Arg("timestamp"), Lit("-"), Arg("sensor_id"), Lit(".json")>>
_COMPLEX_SENSOR_BLOB_PATH ==
    <<Lit("complex-sensor-data/"), Arg("timestamp"), Lit("-"), Arg("device_id"), Lit(".json")>>

\* the tool arguments the host interpolates from: the payload's arguments
\* when that is a mapping, else an empty mapping
McpToolArgs(p) ==
    IF IsDict(p) /\ "arguments" \in Keys(p) /\ IsDict(Lookup(p, "arguments"))
    THEN Lookup(p, "arguments")
    ELSE JObj(<<>>)

\* a template resolves when every {mcptoolargs.x} names a string argument
Resolves(template, p) ==
    \A i \in 1..Len(template) :
        template[i][1] = "arg" =>
            /\ template[i][2] \in Keys(McpToolArgs(p))
            /\ Lookup(McpToolArgs(p), template[i][2])[1] = "str"

RECURSIVE ResolvePath(_, _)
ResolvePath(template, p) ==
    IF template = <<>> THEN ""
    ELSE (IF template[1][1] = "lit" THEN template[1][2]
          ELSE Lookup(McpToolArgs(p), template[1][2])[2])
         \o ResolvePath(Tail(template), p)

(***************************************************************************)
(* The handlers. Each returns how the call ended: the returned str or the  *)
(* raised exception, and what the bound output was set to.                 *)
(***************************************************************************)
Unset == <<"unset">>
Set(v) == <<"set", v>>
Text(toks) == <<"text", toks>>

Return(msg, file) == [kind |-> "return", value |-> msg, file |-> file]
Raise(exc) == [kind |-> "raise", value |-> exc, file |-> Unset]

hello_mcp(context) == Return("Hello I am MCPTool!", Unset)

\* get_snippet decoding as ASCII and dropping what is not
get_snippet_ascii(file, context) ==
    IF file = None THEN Raise("AttributeError")
    ELSE Return(StrOf(SelectSeq(file[2], LAMBDA b : b < 128)), Unset)

\* file: None when the blob does not exist, else <<"stream", bytes>>
get_snippet(file, context) ==
    IF file = None THEN Raise("AttributeError")
    ELSE Return(decode(file[2]), Unset)

\* save_snippet handing the snippet name to file.set
save_snippet_sets_name(context) ==
    LET content == json_loads(context)
        arguments == Subscript(content, "arguments")
    IN  IF arguments[1] = "raise" THEN Raise(arguments[2]) ELSE
        LET snippet_name_from_args ==
                Subscript(arguments[2], _SNIPPET_NAME_PROPERTY_NAME)
        IN  IF snippet_name_from_args[1] = "raise"
            THEN Raise(snippet_name_from_args[2]) ELSE
        LET snippet_content_from_args ==
                Subscript(arguments[2], _SNIPPET_PROPERTY_NAME)
        IN  IF snippet_content_from_args[1] = "raise"
            THEN Raise(snippet_content_from_args[2]) ELSE
        IF ~Truthy(snippet_name_from_args[2])
        THEN Return("No snippet name provided", Unset) ELSE
        IF ~Truthy(snippet_content_from_args[2])
        THEN Return("No snippet content provided", Unset) ELSE
        Return("Snippet '" \o PyStr(snippet_content_from_args[2])
                   \o "' saved successfully",
               Set(snippet_name_from_args[2]))

save_snippet(context) ==
    LET content == json_loads(context)
        arguments == Subscript(content, "arguments")
    IN  IF arguments[1] = "raise" THEN Raise(arguments[2]) ELSE
        LET snippet_name_from_args ==
                Subscript(arguments[2], _SNIPPET_NAME_PROPERTY_NAME)
        IN  IF snippet_name_from_args[1] = "raise"
            THEN Raise(snippet_name_from_args[2]) ELSE
        LET snippet_content_from_args ==
                Subscript(arguments[2], _SNIPPET_PROPERTY_NAME)
        IN  IF snippet_content_from_args[1] = "raise"
            THEN Raise(snippet_content_from_args[2]) ELSE
        IF ~Truthy(snippet_name_from_args[2])
        THEN Return("No snippet name provided", Unset) ELSE
        IF ~Truthy(snippet_content_from_args[2])
        THEN Return("No snippet content provided", Unset) ELSE
        Return("Snippet '" \o PyStr(snippet_content_from_args[2])
                   \o "' saved successfully",
               Set(snippet_content_from_args[2]))

\* save_simple_sensor_data writing the whole context, not its arguments
save_simple_sensor_data_dumps_content(context) ==
    LET content == json_loads(context)
        sensor_data == Subscript(content, "arguments")
    IN  IF sensor_data[1] = "raise" THEN Raise(sensor_data[2]) ELSE
        IF ~Truthy(sensor_data[2])
        THEN Return("No sensor data provided", Unset) ELSE
        Return("Sensor data saved successfully",
               Set(Text(json_dumps(content))))

save_simple_sensor_data(context) ==
    LET content == json_loads(context)
        sensor_data == Subscript(content, "arguments")
    IN  IF sensor_data[1] = "raise" THEN Raise(sensor_data[2]) ELSE
        IF ~Truthy(sensor_data[2])
        THEN Return("No sensor data provided", Unset) ELSE
        Return("Sensor data saved successfully",
               Set(Text(json_dumps(sensor_data[2]))))

\* save_complex_sensor_data without the device_id check
save_complex_sensor_data_no_id_check(context) ==
    LET content == json_loads(context)
        device_data == Subscript(content, "arguments")
    IN  IF device_data[1] = "raise" THEN Raise(device_data[2]) ELSE
        IF ~Truthy(device_data[2])
        THEN Return("No device data provided", Unset) ELSE
        LET device_id == DictGet(device_data[2], "device_id")
        IN  IF device_id[1] = "raise" THEN Raise(device_id[2]) ELSE
        Return("Device data for " \o PyStr(device_id[2])
                   \o " saved successfully",
               Set(Text(json_dumps(device_data[2]))))

save_complex_sensor_data(context) ==
    LET content == json_loads(context)
        device_data == Subscript(content, "arguments")
    IN  IF device_data[1] = "raise" THEN Raise(device_data[2]) ELSE
        IF ~Truthy(device_data[2])
        THEN Return("No device data provided", Unset) ELSE
        LET device_id == DictGet(device_data[2], "device_id")
        IN  IF device_id[1] = "raise" THEN Raise(device_id[2]) ELSE
        IF ~Truthy(device_id[2])
        THEN Return("Device ID is required", Unset) ELSE
        Return("Device data for " \o PyStr(device_id[2])
                   \o " saved successfully",
               Set(Text(json_dumps(device_data[2]))))

(***************************************************************************)
(* class ToolProperty. An instance is <<"ToolProperty", fields>>;          *)
(* properties and items hold None or any Python value.                     *)
(***************************************************************************)
ToolProperty(property_name, property_type, description, properties, items) ==
    <<"ToolProperty",
      [propertyName |-> property_name,
       propertyType |-> property_type,
       description  |-> description,
       properties   |-> properties,
       items        |-> items]>>

\* the constructor called with the three positional arguments only
TP(property_name, property_type, description) ==
    ToolProperty(property_name, property_type, description, None, None)

IsToolProperty(v) == v[1] = "ToolProperty"

\* to_dict testing `is not None` where the code tests truthiness
RECURSIVE to_dict_is_not_none(_)
to_dict_is_not_none(this) ==
    LET f == this[2]
        base == << <<"propertyName", JStr(f.propertyName)>>,
                   <<"propertyType", JStr(f.propertyType)>>,
                   <<"description", JStr(f.description)>> >>
        withProperties ==
            IF f.properties # None
            THEN IF IsList(f.properties)
                 THEN Append(base, <<"properties",
                        JArr([i \in 1..Len(f.properties[2]) |->
                                IF IsToolProperty(f.properties[2][i])
                                THEN to_dict_is_not_none(f.properties[2][i])
                                ELSE f.properties[2][i]])>>)
                 ELSE Append(base, <<"properties", f.properties>>)
            ELSE base
        withItems ==
            IF f.items # None
            THEN IF IsToolProperty(f.items)
                 THEN Append(withProperties, <<"items", to_dict_is_not_none(f.items)>>)
                 ELSE Append(withProperties, <<"items", f.items>>)
            ELSE withProperties
    IN  JObj(withItems)

\* to_dict walking the properties list from its end
RECURSIVE to_dict_reversed(_)
to_dict_reversed(this) ==
    LET f == this[2]
        base == << <<"propertyName", JStr(f.propertyName)>>,
                   <<"propertyType", JStr(f.propertyType)>>,
                   <<"description", JStr(f.description)>> >>
        withProperties ==
            IF Truthy(f.properties)
            THEN IF IsList(f.properties)
                 THEN Append(base, <<"properties",
                        JArr([i \in 1..Len(f.properties[2]) |->
                                LET prop == f.properties[2][Len(f.properties[2]) + 1 - i]
                                IN  IF IsToolProperty(prop)
                                    THEN to_dict_reversed(prop)
                                    ELSE prop])>>)
                 ELSE Append(base, <<"properties", f.properties>>)
            ELSE base
        withItems ==
            IF Truthy(f.items)
            THEN IF IsToolProperty(f.items)
                 THEN Append(withProperties, <<"items", to_dict_reversed(f.items)>>)
                 ELSE Append(withProperties, <<"items", f.items>>)
            ELSE withProperties
    IN  JObj(withItems)

RECURSIVE to_dict(_)
to_dict(this) ==
    LET f == this[2]
        base == << <<"propertyName", JStr(f.propertyName)>>,
                   <<"propertyType", JStr(f.propertyType)>>,
                   <<"description", JStr(f.description)>> >>
        withProperties ==
            IF Truthy(f.properties)
            THEN IF IsList(f.properties)
                 THEN Append(base, <<"properties",
                        JArr([i \in 1..Len(f.properties[2]) |->
                                IF IsToolProperty(f.properties[2][i])
                                THEN to_dict(f.properties[2][i])
                                ELSE f.properties[2][i]])>>)
                 ELSE Append(base, <<"properties", f.properties>>)
            ELSE base
        withItems ==
            IF Truthy(f.items)
            THEN IF IsToolProperty(f.items)
                 THEN Append(withProperties, <<"items", to_dict(f.items)>>)
                 ELSE Append(withProperties, <<"items", f.items>>)
            ELSE withProperties
    IN  JObj(withItems)

\* json.dumps([prop.to_dict() for prop in objects])
build(objects) ==
    json_dumps(JArr([i \in 1..Len(objects[2]) |-> to_dict(objects[2][i])]))

(***************************************************************************)
(* The tool property lists of the module (lines 46-51, 125-132, 168-246)   *)
(***************************************************************************)
tool_properties_save_snippets_object ==
    JArr(<<
        TP(_SNIPPET_NAME_PROPERTY_NAME, "string", "The name of the snippet."),
        TP(_SNIPPET_PROPERTY_NAME, "string", "The content of the snippet.") >>)

tool_properties_get_snippets_object ==
    JArr(<<
        TP(_SNIPPET_NAME_PROPERTY_NAME, "string", "The name of the snippet.") >>)

\* the simple sensor list with timestamp declared a string
tool_properties_simple_sensor_data_object_string_timestamp ==
    JArr(<<
        TP("sensor_id", "string", "ID of the sensor"),
        TP("metric_name", "string", "Name of the metric"),
        TP("value", "number", "Value of the metric"),
        TP("unit", "string", "Unit of the metric"),
        TP("timestamp", "string", "Timestamp of the data"),
        TP("IsCalibrated", "boolean", "If the device is calibrated manually (true) or automatically (false)") >>)

tool_properties_simple_sensor_data_object ==
    JArr(<<
        TP("sensor_id", "string", "ID of the sensor"),
        TP("metric_name", "string", "Name of the metric"),
        TP("value", "number", "Value of the metric"),
        TP("unit", "string", "Unit of the metric"),
        TP("timestamp", "DateTime", "Timestamp of the data"),
        TP("IsCalibrated", "boolean", "If the device is calibrated manually (true) or automatically (false)") >>)

location_properties ==
    JArr(<<
        TP("latitude", "number", "Latitude of the device location"),
        TP("longitude", "number", "Longitude of the device location"),
        TP("altitude", "number", "Altitude of the device location"),
        TP("description", "string", "Description of the device location") >>)

metric_properties ==
    JArr(<<
        TP("name", "string", "Name of the metric"),
        TP("value", "number", "Value of the metric"),
        TP("unit", "string", "Unit of the metric"),
        TP("timestamp", "number", "Timestamp of the metric data (epoch seconds)"),
        TP("is_calibrated", "boolean", "Whether the metric is calibrated"),
        TP("quality", "string", "Quality status of the metric") >>)

\* the status list with the element type of errors passed as properties=
status_properties_wrong_keyword ==
    JArr(<<
        TP("battery_level", "number", "Battery level percentage"),
        TP("signal_strength", "number", "Signal strength in dBm"),
        TP("last_maintenance", "number", "Timestamp of last maintenance (epoch seconds)"),
        ToolProperty("errors", "array", "List of error codes or messages", JArr(<<TP("error", "string", "Error code or message")>>), None) >>)

status_properties ==
    JArr(<<
        TP("battery_level", "number", "Battery level percentage"),
        TP("signal_strength", "number", "Signal strength in dBm"),
        TP("last_maintenance", "number", "Timestamp of last maintenance (epoch seconds)"),
        ToolProperty("errors", "array", "List of error codes or messages", None, TP("error", "string", "Error code or message")) >>)

sensor_properties ==
    JArr(<<
        TP("sensor_id", "string", "Unique identifier of the sensor"),
        TP("type", "string", "Type of the sensor (e.g., temperature, humidity)"),
        ToolProperty("metrics", "array", "List of metrics measured by the sensor", None, ToolProperty("metric", "object", "Metric information", metric_properties, None)),
        ToolProperty("status", "object", "Status information of the sensor", status_properties, None) >>)

event_properties ==
    JArr(<<
        TP("event_id", "string", "Unique identifier of the event"),
        TP("type", "string", "Type of the event"),
        TP("sensor_id", "string", "ID of the sensor related to the event"),
        TP("metric", "string", "Metric involved in the event"),
        TP("value", "number", "Value that triggered the event"),
        TP("threshold", "number", "Threshold value for the event"),
        TP("timestamp", "number", "Timestamp of the event (epoch seconds)"),
        TP("severity", "string", "Severity level of the event") >>)

network_properties ==
    JArr(<<
        TP("type", "string", "Type of network connection (e.g., wifi, ethernet)"),
        TP("ssid", "string", "SSID of the WiFi network"),
        TP("ip", "string", "IP address of the device") >>)

configuration_properties ==
    JArr(<<
        TP("sampling_interval_sec", "number", "Sampling interval in seconds"),
        TP("transmit_interval_sec", "number", "Data transmission interval in seconds"),
        TP("firmware_version", "string", "Firmware version of the device"),
        ToolProperty("network", "object", "Network configuration details", network_properties, None) >>)

create_complex_sensor_tool_properties ==
    JArr(<<
        TP("device_id", "string", "Unique identifier of the device"),
        TP("timestamp", "DateTime", "Timestamp of the device data"),
        ToolProperty("location", "object", "Geographical and descriptive location of the device", location_properties, None),
        ToolProperty("sensors", "array", "List of sensors attached to the device", None, ToolProperty("sensor", "object", "Sensor information", sensor_properties, None)),
        ToolProperty("events", "array", "List of events generated by the device", None, ToolProperty("event", "object", "Event information", event_properties, None)),
        ToolProperty("configuration", "object", "Device configuration details", configuration_properties, None) >>)

tool_properties_complex_sensor_data_object == create_complex_sensor_tool_properties

\* the property list the module holds for each tool with a schema
ModuleObjects ==
    [get_snippet |-> tool_properties_get_snippets_object,
     save_snippet |-> tool_properties_save_snippets_object,
     save_simple_sensor_data |-> tool_properties_simple_sensor_data_object,
     save_complex_sensor_data |-> tool_properties_complex_sensor_data_object]

SchemaTools == DOMAIN ModuleObjects

(***************************************************************************)
(* Invocation payloads the host may deliver                                *)
(***************************************************************************)
Absent == <<"absent">>

Field(k, v) == IF v = Absent THEN <<>> ELSE << <<k, v>> >>

Payload(arguments) == JObj(<< <<"arguments", arguments>> >>)

NameOpts == {Absent, JStr(""), JStr("greet"), JStr("hi")}

ContentOpts == {Absent, None} \cup {JStr(c) : c \in Strings}

HelloPayloads == {Payload(JObj(<<>>))}

GetSnippetPayloads ==
    {Payload(JObj(Field(_SNIPPET_NAME_PROPERTY_NAME, n))) : n \in NameOpts}

SaveSnippetPayloads ==
    {Payload(JObj(Field(_SNIPPET_NAME_PROPERTY_NAME, n)
                  \o Field(_SNIPPET_PROPERTY_NAME, c))) :
        n \in NameOpts, c \in ContentOpts}
    \cup {Payload(None), JObj(<<>>)}

SimpleSensorArgs ==
    { None,
      JObj(<<>>),
      JArr(<<JNum(1)>>),
      JObj(<< <<"sensor_id", JStr("s1")>>, <<"metric_name", JStr("temp")>>,
              <<"value", JNum(3)>>, <<"unit", JStr("C")>>,
              <<"timestamp", JStr("t1")>>, <<"IsCalibrated", JBool(TRUE)>> >>),
      JObj(<< <<"timestamp", JStr("t1")>>, <<"sensor_id", JStr("s1")>>,
              <<"value", JNum(0)>>,
              <<"extra", JObj(<< <<"nested", JArr(<<JNum(1),
                                    JObj(<< <<"k", None>> >>)>>)>> >>)>> >>),
      JObj(<< <<"sensor_id", JStr("s2")>>, <<"value", JNum(2)>> >>) }

ComplexSensorArgs ==
    { None,
      JObj(<<>>),
      JArr(<<JNum(1)>>),
      JObj(<< <<"device_id", JStr("dev1")>>, <<"timestamp", JStr("t1")>>,
              <<"sensors", JArr(<< JObj(<<
                    <<"sensor_id", JStr("s1")>>,
                    <<"metrics", JArr(<< JObj(<< <<"name", JStr("temp")>>,
                                                 <<"value", JNum(2)>> >>) >>)>>,
                    <<"status", JObj(<< <<"errors", JArr(<<>>)>> >>)>> >>) >>)>>,
              <<"events", JArr(<<>>)>>,
              <<"extra", JStr("e")>> >>),
      JObj(<< <<"timestamp", JStr("t1")>>, <<"device_id", JStr("dev1")>> >>),
      JObj(<< <<"device_id", JStr("")>>, <<"timestamp", JStr("t1")>>,
              <<"location", JObj(<<>>)>> >>),
      JObj(<< <<"device_id", None>>, <<"timestamp", JStr("t1")>> >>),
      JObj(<< <<"timestamp", JStr("t2")>>, <<"sensors", JArr(<<>>)>> >>) }

SimpleSensorPayloads == {Payload(a) : a \in SimpleSensorArgs} \cup {JObj(<<>>)}

ComplexSensorPayloads == {Payload(a) : a \in ComplexSensorArgs} \cup {JObj(<<>>)}

(***************************************************************************)
(* The host: it binds `file` to the blob at the resolved path, calls the   *)
(* handler with the JSON-encoded payload, and applies the output binding.  *)
(* When the path does not resolve it either fails the invocation before    *)
(* the handler runs (BindingFailure) or runs the handler unbound.          *)
(***************************************************************************)
Put(f, k, v) == [x \in DOMAIN f \cup {k} |-> IF x = k THEN v ELSE f[x]]

\* the blob the output binding stores for the value handed to file.set
Blob(v) == IF v[1] = "str" THEN <<"bytes", BlobOf(v[2])>> ELSE v

\* store after an invocation whose output binding is bound to template
Written(template, p, out) ==
    IF Resolves(template, p) /\ out.file[1] = "set"
    THEN Put(store, ResolvePath(template, p), Blob(out.file[2]))
    ELSE store

\* the input stream bound to template, None when there is no such blob
InputStream(template, p) ==
    IF Resolves(template, p) /\ ResolvePath(template, p) \in DOMAIN store
    THEN <<"stream", store[ResolvePath(template, p)][2]>>
    ELSE None

\* a mapping's field k is present and not empty / absent or empty
NonEmpty(a, k) == k \in Keys(a) /\ Truthy(Lookup(a, k))
MissingOrEmpty(a, k) == ~NonEmpty(a, k)

NoOutcome == [kind |-> "none", value |-> "", file |-> Unset]

Init ==
    /\ store = [x \in {} |-> None]
    /\ tool = ""
    /\ payload = None
    /\ outcome = NoOutcome
    /\ saved = [x \in {} |-> ""]
    /\ props = JArr(<<>>)
    /\ document = <<>>
    /\ self = None
    /\ result = None

Called(t, p, out) ==
    /\ tool' = t
    /\ payload' = p
    /\ outcome' = out
    /\ UNCHANGED <<props, document, self, result>>

InvokeHello ==
    \E p \in HelloPayloads :
        /\ Called("hello_mcp", p, hello_mcp(json_dumps(p)))
        /\ UNCHANGED <<store, saved>>

InvokeGetSnippet ==
    \E p \in GetSnippetPayloads :
        /\ Called("get_snippet", p,
                  get_snippet(InputStream(_SNIPPET_BLOB_PATH, p), json_dumps(p)))
        /\ UNCHANGED <<store, saved>>

InvokeSaveSnippet ==
    \E p \in SaveSnippetPayloads :
        LET out == save_snippet(json_dumps(p))
        IN  /\ Called("save_snippet", p, out)
            /\ store' = Written(_SNIPPET_BLOB_PATH, p, out)
            /\ saved' =
                 IF /\ IsDict(p) /\ "arguments" \in Keys(p)
                    /\ IsDict(Lookup(p, "arguments"))
                    /\ NonEmpty(Lookup(p, "arguments"), _SNIPPET_NAME_PROPERTY_NAME)
                    /\ NonEmpty(Lookup(p, "arguments"), _SNIPPET_PROPERTY_NAME)
                 THEN Put(saved,
                          Lookup(Lookup(p, "arguments"), _SNIPPET_NAME_PROPERTY_NAME)[2],
                          Lookup(Lookup(p, "arguments"), _SNIPPET_PROPERTY_NAME)[2])
                 ELSE saved

InvokeSaveSimpleSensorData ==
    \E p \in SimpleSensorPayloads :
        LET out == save_simple_sensor_data(json_dumps(p))
        IN  /\ Called("save_simple_sensor_data", p, out)
            /\ store' = Written(_SIMPLE_SENSOR_BLOB_PATH, p, out)
            /\ UNCHANGED saved

InvokeSaveComplexSensorData ==
    \E p \in ComplexSensorPayloads :
        LET out == save_complex_sensor_data(json_dumps(p))
        IN  /\ Called("save_complex_sensor_data", p, out)
            /\ store' = Written(_COMPLEX_SENSOR_BLOB_PATH, p, out)
            /\ UNCHANGED saved

BoundTools ==
    { <<"get_snippet", _SNIPPET_BLOB_PATH, GetSnippetPayloads>>,
      <<"save_snippet", _SNIPPET_BLOB_PATH, SaveSnippetPayloads>>,
      <<"save_simple_sensor_data", _SIMPLE_SENSOR_BLOB_PATH, SimpleSensorPayloads>>,
      <<"save_complex_sensor_data", _COMPLEX_SENSOR_BLOB_PATH, ComplexSensorPayloads>> }

BindingFailure ==
    \E b \in BoundTools :
        \E p \in b[3] :
            /\ ~Resolves(b[2], p)
            /\ Called(b[1], p, [kind |-> "binding_error", value |-> "", file |-> Unset])
            /\ UNCHANGED <<store, saved>>

Next ==
    \/ InvokeHello
    \/ InvokeGetSnippet
    \/ InvokeSaveSnippet
    \/ InvokeSaveSimpleSensorData
    \/ InvokeSaveComplexSensorData
    \/ BindingFailure

Spec == Init /\ [][Next]_vars

(***************************************************************************)
(* Properties of the handlers, checked under Spec                          *)
(***************************************************************************)
\* the handler of the last invocation ran (the host did not fail the binding)
HandlerRan == outcome.kind \in {"return", "raise"}

CarriesArguments(p) == IsDict(p) /\ "arguments" \in Keys(p)

ArgumentsMapping(p) == CarriesArguments(p) /\ IsDict(Lookup(p, "arguments"))

\* msg holds s between two of the literal pieces the handlers format with
Contains(msg, s) ==
    \E pre \in {"Snippet '", "Device data for "} :
        \E post \in {"' saved successfully", " saved successfully"} :
            msg = pre \o s \o post

SnippetPath(name) == "snippets/" \o name \o ".json"

\* store and store' agree everywhere except possibly at path
SameExceptAt(path) ==
    /\ DOMAIN store' \subseteq DOMAIN store \cup {path}
    /\ \A q \in DOMAIN store : q # path => q \in DOMAIN store' /\ store'[q] = store[q]

\* C1: a save_snippet invocation whose snippetname or snippet is missing or
\* empty returns a missing-field message (the no-name message when the name is
\* empty), leaves the output unset and leaves the store as it was.
C1_MissingFieldReported ==
    [][ ( /\ tool' = "save_snippet"
          /\ HandlerRan'
          /\ ArgumentsMapping(payload')
          /\ \/ MissingOrEmpty(Lookup(payload', "arguments"), "snippetname")
             \/ MissingOrEmpty(Lookup(payload', "arguments"), "snippet") )
        => ( /\ outcome'.kind = "return"
             /\ outcome'.value \in {"No snippet name provided",
                                    "No snippet content provided"}
             /\ ( /\ "snippetname" \in Keys(Lookup(payload', "arguments"))
                  /\ ~Truthy(Lookup(Lookup(payload', "arguments"), "snippetname")) )
                => outcome'.value = "No snippet name provided"
             /\ outcome'.file = Unset
             /\ store' = store ) ]_vars

\* C2: a save_snippet invocation with non-empty snippetname and snippet sets the
\* output once to the snippet, unchanged; the store then holds that snippet, and
\* nothing else changed, at snippets/{snippetname}.json; and the returned
\* message contains the snippet.
C2_SaveWritesSnippet ==
    [][ ( /\ tool' = "save_snippet"
          /\ HandlerRan'
          /\ ArgumentsMapping(payload')
          /\ NonEmpty(Lookup(payload', "arguments"), "snippetname")
          /\ NonEmpty(Lookup(payload', "arguments"), "snippet") )
        => LET name    == Lookup(Lookup(payload', "arguments"), "snippetname")[2]
               snippet == Lookup(Lookup(payload', "arguments"), "snippet")
           IN  /\ outcome'.kind = "return"
               /\ outcome'.file = Set(snippet)
               /\ Contains(outcome'.value, snippet[2])
               /\ SnippetPath(name) \in DOMAIN store'
               /\ decode(store'[SnippetPath(name)][2]) = snippet[2]
               /\ SameExceptAt(SnippetPath(name)) ]_vars

C2_Witness ==
    /\ tool = "save_snippet"
    /\ outcome.kind = "return"
    /\ outcome.file = Set(JStr("hi"))
    /\ SnippetPath("greet") \in DOMAIN store
    /\ store[SnippetPath("greet")] = <<"bytes", <<104, 105>> >>

ComplexPath(a) ==
    "complex-sensor-data/" \o Lookup(a, "timestamp")[2] \o "-"
        \o Lookup(a, "device_id")[2] \o ".json"

SimplePath(a) ==
    "simple-sensor-data/" \o Lookup(a, "timestamp")[2] \o "-"
        \o Lookup(a, "sensor_id")[2] \o ".json"

\* C3: save_complex_sensor_data, given an arguments mapping that is empty or
\* whose device_id is absent or empty, returns a descriptive message ("Device
\* ID is required" when the mapping is not empty) and writes nothing; given any
\* other mapping it sets the output once, the store changes at the bound path
\* only, and the returned confirmation includes the device id.
C3_ComplexValidation ==
    [][ ( /\ tool' = "save_complex_sensor_data"
          /\ HandlerRan'
          /\ ArgumentsMapping(payload') )
        => LET a == Lookup(payload', "arguments")
           IN  IF ~Truthy(a) \/ MissingOrEmpty(a, "device_id")
               THEN /\ outcome'.kind = "return"
                    /\ outcome'.value = IF Truthy(a) THEN "Device ID is required"
                                        ELSE "No device data provided"
                    /\ outcome'.file = Unset
                    /\ store' = store
               ELSE /\ outcome'.kind = "return"
                    /\ outcome'.file[1] = "set"
                    /\ Contains(outcome'.value, Lookup(a, "device_id")[2])
                    /\ ComplexPath(a) \in DOMAIN store'
                    /\ SameExceptAt(ComplexPath(a)) ]_vars

C3_Witness ==
    /\ tool = "save_complex_sensor_data"
    /\ ArgumentsMapping(payload)
    /\ "timestamp" \in Keys(Lookup(payload, "arguments"))
    /\ "device_id" \in Keys(Lookup(payload, "arguments"))
    /\ Lookup(Lookup(payload, "arguments"), "device_id") = JStr("")
    /\ outcome = Return("Device ID is required", Unset)

\* the arguments of an invocation a sensor save accepts
SensorAccepted ==
    /\ tool \in {"save_simple_sensor_data", "save_complex_sensor_data"}
    /\ HandlerRan
    /\ ArgumentsMapping(payload)
    /\ Truthy(Lookup(payload, "arguments"))
    /\ tool = "save_complex_sensor_data"
         => NonEmpty(Lookup(payload, "arguments"), "device_id")

\* C4: what an accepted save_simple_sensor_data or save_complex_sensor_data
\* invocation writes decodes to the arguments mapping of the invocation: the
\* same keys, each with the same value at every level of nesting.
C4_SensorRoundTrip ==
    SensorAccepted =>
        LET a    == Lookup(payload, "arguments")
            tmpl == IF tool = "save_simple_sensor_data"
                    THEN _SIMPLE_SENSOR_BLOB_PATH ELSE _COMPLEX_SENSOR_BLOB_PATH
        IN  /\ outcome.kind = "return"
            /\ outcome.file[1] = "set"
            /\ outcome.file[2][1] = "text"
            /\ PyEq(json_loads(outcome.file[2][2]), a)
            /\ Resolves(tmpl, payload) =>
                 /\ ResolvePath(tmpl, payload) \in DOMAIN store
                 /\ PyEq(json_loads(store[ResolvePath(tmpl, payload)][2]), a)

C4_Witness ==
    /\ SensorAccepted
    /\ tool = "save_simple_sensor_data"
    /\ "extra" \in Keys(Lookup(payload, "arguments"))
    /\ IsDict(Lookup(Lookup(payload, "arguments"), "extra"))
    /\ SimplePath(Lookup(payload, "arguments")) \in DOMAIN store

\* C5: whenever the payload of a save_snippet, save_simple_sensor_data or
\* save_complex_sensor_data invocation carries an arguments key and a required
\* argument is absent from the mapping or empty, the handler returns a str and
\* does not raise.
C5_ValidationNeverRaises ==
    ( /\ HandlerRan
      /\ CarriesArguments(payload)
      /\ LET a == Lookup(payload, "arguments")
         IN  \/ /\ tool = "save_snippet"
                /\ IsDict(a)
                /\ MissingOrEmpty(a, "snippetname") \/ MissingOrEmpty(a, "snippet")
             \/ /\ tool = "save_simple_sensor_data"
                /\ ~Truthy(a)
             \/ /\ tool = "save_complex_sensor_data"
                /\ ~Truthy(a) \/ (IsDict(a) /\ MissingOrEmpty(a, "device_id")) )
    => outcome.kind = "return"

\* C10: get_snippet for a name returns the snippet of the most recent
\* save_snippet invocation that gave that name with a non-empty snippet;
\* get_snippet, hello_mcp and a save_snippet with an empty or missing name or
\* snippet leave every stored object as it was; and a save_snippet for one
\* name leaves the objects stored under every other path as they were.
C10_SnippetStore ==
    [][ /\ ( /\ tool' = "get_snippet"
             /\ HandlerRan'
             /\ ArgumentsMapping(payload')
             /\ NonEmpty(Lookup(payload', "arguments"), "snippetname")
             /\ Lookup(Lookup(payload', "arguments"), "snippetname")[2]
                    \in DOMAIN saved' )
           => /\ outcome'.kind = "return"
              /\ outcome'.value =
                   saved'[Lookup(Lookup(payload', "arguments"), "snippetname")[2]]
        /\ tool' \in {"get_snippet", "hello_mcp"} => store' = store
        /\ ( /\ tool' = "save_snippet"
             /\ ArgumentsMapping(payload') )
           => LET a == Lookup(payload', "arguments")
              IN  IF NonEmpty(a, "snippetname") /\ NonEmpty(a, "snippet")
                  THEN SameExceptAt(SnippetPath(Lookup(a, "snippetname")[2]))
                  ELSE store' = store
        /\ ( /\ tool' = "save_snippet"
             /\ ~ArgumentsMapping(payload') )
           => store' = store ]_vars

C10_Witness ==
    /\ tool = "get_snippet"
    /\ ArgumentsMapping(payload)
    /\ Lookup(payload, "arguments") = JObj(<< <<"snippetname", JStr("greet")>> >>)
    /\ outcome = Return("é", Unset)
    /\ "hi" \in DOMAIN saved
    /\ saved["hi"] = "hi"
    /\ saved["greet"] = "é"

(***************************************************************************)
(* The schema builder on its own: to_dict and build applied to the         *)
(* module's property lists and to a bounded universe of descriptors        *)
(***************************************************************************)
MaxChildren == 2
MaxTop == 2

\* the sequences over S of length at most n
Seqs(S, n) == UNION {[1..k -> S] : k \in 0..n}

LeafA == TP("a", "string", "A")
LeafB == TP("b", "number", "B")
LeafPool == {LeafA, LeafB}

\* an element of a properties list that is not a ToolProperty
RawDoc == JObj(<< <<"propertyName", JStr("raw")>> >>)

ChildLists == {JArr(c) : c \in Seqs(LeafPool \cup {RawDoc}, MaxChildren)}

ObjectNodes == {ToolProperty("o", "object", "O", c, None) : c \in ChildLists}

ArrayNodes ==
    {ToolProperty("r", "array", "R", None, i) : i \in LeafPool \cup ObjectNodes}

OddNodes ==
    { ToolProperty("p", "object", "P", JObj(<<>>), None),
      ToolProperty("q", "object", "Q", JObj(<< <<"k", JStr("v")>> >>), None),
      ToolProperty("i", "array", "I", None, JObj(<<>>)),
      ToolProperty("j", "array", "J", None, JObj(<< <<"type", JStr("string")>> >>)),
      ToolProperty("both", "object", "OA", JArr(<<LeafA>>), LeafB),
      ToolProperty("s", "string", "S", JArr(<<LeafB, LeafA>>), None) }

DeepNode ==
    ToolProperty("sensors", "array", "N", None,
        ToolProperty("sensor", "object", "N1",
            JArr(<< LeafA,
                    ToolProperty("metrics", "array", "N2", None,
                        ToolProperty("metric", "object", "N3",
                                     JArr(<<LeafB, LeafA>>), None)),
                    ToolProperty("status", "object", "N4",
                                 JArr(<<LeafB,
                                        ToolProperty("errors", "array", "N5",
                                                     None, LeafA)>>), None) >>),
            None))

Descriptors == LeafPool \cup ObjectNodes \cup ArrayNodes \cup OddNodes \cup {DeepNode}

TopPool ==
    { LeafA, LeafB,
      ToolProperty("o", "object", "O", JArr(<<LeafA, LeafB>>), None),
      ToolProperty("r", "array", "R", None, LeafA),
      DeepNode }

PropLists ==
    {JArr(t) : t \in Seqs(TopPool, MaxTop)} \cup {JArr(<<d>>) : d \in Descriptors}

InitSchema ==
    /\ store = [x \in {} |-> None]
    /\ payload = None
    /\ outcome = NoOutcome
    /\ saved = [x \in {} |-> ""]
    /\ \/ tool \in SchemaTools /\ props = ModuleObjects[tool]
       \/ tool = "" /\ props \in PropLists
    /\ document = <<>>
    /\ self = None
    /\ result = None

\* tool_properties_..._json = json.dumps([prop.to_dict() for prop in ...])
BuildSchema ==
    /\ document = <<>>
    /\ document' = build(props)
    /\ UNCHANGED <<store, tool, payload, outcome, saved, props, self, result>>

\* one call prop.to_dict() on a property of the list
CallToDict ==
    \E i \in 1..Len(props[2]) :
        /\ self' = props[2][i]
        /\ result' = to_dict(props[2][i])
        /\ UNCHANGED <<store, tool, payload, outcome, saved, props, document>>

NextSchema ==
    \/ BuildSchema
    \/ CallToDict

SpecSchema == InitSchema /\ [][NextSchema]_vars

(***************************************************************************)
(* Properties of ToolProperty and the schemas, checked under SpecSchema    *)
(***************************************************************************)
\* the values Python treats as empty
EmptyValues == {None, JArr(<<>>), JObj(<<>>), JStr(""), JNum(0), JBool(FALSE)}

\* the ToolProperty instances directly under d: those of its properties list
\* and its items
SubProperties(d) ==
    (IF IsList(d[2].properties)
     THEN {d[2].properties[2][i] : i \in {j \in 1..Len(d[2].properties[2]) :
                                            IsToolProperty(d[2].properties[2][j])}}
     ELSE {})
    \cup (IF IsToolProperty(d[2].items) THEN {d[2].items} ELSE {})

\* the serialisation of the sub-property c of d within o, the serialisation of d
SubDocument(d, o, c) ==
    IF IsToolProperty(d[2].items) /\ c = d[2].items
    THEN Lookup(o, "items")
    ELSE Lookup(o, "properties")[2][CHOOSE i \in 1..Len(d[2].properties[2]) :
                                        d[2].properties[2][i] = c]

\* C6 as stated: in the serialisation o of every data-model descriptor d, the key
\* properties is present exactly when properties was provided, and the key
\* items exactly when items was provided.
RECURSIVE KeysMirrorProvided(_, _)
KeysMirrorProvided(d, o) ==
    /\ ("properties" \in Keys(o)) <=> (d[2].properties # None)
    /\ ("items" \in Keys(o)) <=> (d[2].items # None)
    /\ \A c \in SubProperties(d) :
          ( /\ IsToolProperty(d[2].items) /\ c = d[2].items => "items" \in Keys(o)
            /\ ~(IsToolProperty(d[2].items) /\ c = d[2].items)
                  => "properties" \in Keys(o) )
          => KeysMirrorProvided(c, SubDocument(d, o, c))

\* a descriptor of the data model: its properties, when provided, is a list of
\* descriptors and its items, when provided, is a descriptor
RECURSIVE IsDescriptor(_)
IsDescriptor(d) ==
    /\ IsToolProperty(d)
    /\ d[2].properties # None =>
          /\ IsList(d[2].properties)
          /\ \A i \in 1..Len(d[2].properties[2]) : IsDescriptor(d[2].properties[2][i])
    /\ d[2].items # None => IsDescriptor(d[2].items)

C6_KeysIffProvided ==
    (result # None /\ IsDescriptor(self)) => KeysMirrorProvided(self, result)

\* C6 (amended): in the serialisation o of every descriptor d, the key
\* properties is present exactly when properties was provided and is not
\* empty, and the key items exactly when items was provided and is not empty
\* (a ToolProperty never is); a key that is present holds a non-empty value,
\* properties holding one entry per child and items the serialised item.
RECURSIVE KeysMirrorNonEmpty(_, _)
KeysMirrorNonEmpty(d, o) ==
    /\ ("properties" \in Keys(o)) <=> (d[2].properties \notin EmptyValues)
    /\ ("items" \in Keys(o)) <=> (d[2].items \notin EmptyValues)
    /\ "properties" \in Keys(o) =>
          /\ Lookup(o, "properties") \notin EmptyValues
          /\ IsList(d[2].properties) =>
                /\ IsList(Lookup(o, "properties"))
                /\ Len(Lookup(o, "properties")[2]) = Len(d[2].properties[2])
    /\ "items" \in Keys(o) =>
          /\ Lookup(o, "items") \notin EmptyValues
          /\ IsToolProperty(d[2].items) =>
                /\ IsDict(Lookup(o, "items"))
                /\ Lookup(Lookup(o, "items"), "propertyName")
                       = JStr(d[2].items[2].propertyName)
    /\ d[2].properties = None /\ d[2].items = None =>
          Keys(o) = {"propertyName", "propertyType", "description"}
    /\ \A c \in SubProperties(d) : KeysMirrorNonEmpty(c, SubDocument(d, o, c))

C6_KeysIffNonEmpty == result # None => KeysMirrorNonEmpty(self, result)

C6_Witness ==
    /\ result # None
    /\ self[2].propertyType = "object"
    /\ self[2].properties = JArr(<<>>)
    /\ "properties" \notin Keys(result)

\* d and o describe the same property: o names d, and entry n of its
\* properties describes child n of d, recursively; likewise its items
RECURSIVE Corresponds(_, _)
Corresponds(d, o) ==
    IF ~IsToolProperty(d) THEN o = d
    ELSE
    /\ IsDict(o)
    /\ {"propertyName", "propertyType", "description"} \subseteq Keys(o)
    /\ Lookup(o, "propertyName") = JStr(d[2].propertyName)
    /\ Lookup(o, "propertyType") = JStr(d[2].propertyType)
    /\ Lookup(o, "description") = JStr(d[2].description)
    /\ (IsList(d[2].properties) /\ Len(d[2].properties[2]) > 0) =>
          /\ "properties" \in Keys(o)
          /\ IsList(Lookup(o, "properties"))
          /\ Len(Lookup(o, "properties")[2]) = Len(d[2].properties[2])
          /\ \A n \in 1..Len(d[2].properties[2]) :
                Corresponds(d[2].properties[2][n], Lookup(o, "properties")[2][n])
    /\ IsToolProperty(d[2].items) =>
          /\ "items" \in Keys(o)
          /\ Corresponds(d[2].items, Lookup(o, "items"))

\* C7: the document built from a property list decodes to a list of the same
\* length whose n-th element is the serialisation of the n-th property, and at
\* every level the n-th entry of properties is the serialisation of the n-th
\* child.
C7_BuildKeepsOrder ==
    document # <<>> =>
        LET doc == json_loads(document)
        IN  /\ IsList(doc)
            /\ Len(doc[2]) = Len(props[2])
            /\ \A n \in 1..Len(props[2]) : Corresponds(props[2][n], doc[2][n])

C7_Witness ==
    /\ document # <<>>
    /\ Len(props[2]) = 2
    /\ props[2][1] = DeepNode
    /\ props[2][2] = LeafA

\* names of the ToolProperty elements of a list, in order
Names(list) == [i \in 1..Len(list[2]) |-> list[2][i][2].propertyName]

Unique(names) == \A i, j \in 1..Len(names) : names[i] = names[j] => i = j

RECURSIVE Depth(_)
Depth(d) ==
    IF SubProperties(d) = {} THEN 1
    ELSE 1 + (CHOOSE m \in {Depth(c) : c \in SubProperties(d)} :
                 \A c \in SubProperties(d) : Depth(c) <= m)

RECURSIVE WellFormed(_)
WellFormed(d) ==
    /\ IsToolProperty(d)
    /\ ~(d[2].properties # None /\ d[2].items # None)
    /\ d[2].properties # None =>
          /\ d[2].propertyType = "object"
          /\ IsList(d[2].properties)
          /\ \A i \in 1..Len(d[2].properties[2]) : WellFormed(d[2].properties[2][i])
          /\ Unique(Names(d[2].properties))
    /\ d[2].items # None =>
          /\ d[2].propertyType = "array"
          /\ WellFormed(d[2].items)

\* C8: in each property list of the module every descriptor, at any depth, has
\* not both properties and items; has properties only with type object and
\* items only with type array; has sibling names that are pairwise distinct;
\* and nests finitely (here: at most five levels).
C8_ModuleSchemasWellFormed ==
    tool \in SchemaTools =>
        /\ IsList(props)
        /\ \A i \in 1..Len(props[2]) :
              WellFormed(props[2][i]) /\ Depth(props[2][i]) \in 1..5
        /\ Unique(Names(props))

C8_Witness ==
    /\ tool = "save_complex_sensor_data"
    /\ Len(props[2]) = 6
    /\ Depth(props[2][4]) = 5
    /\ document # <<>>

\* the propertyType of every property of a decoded schema document
RECURSIVE TypesIn(_)
TypesIn(o) ==
    IF IsList(o) THEN UNION {TypesIn(o[2][i]) : i \in 1..Len(o[2])}
    ELSE IF IsDict(o)
    THEN (IF "propertyType" \in Keys(o) THEN {Lookup(o, "propertyType")[2]} ELSE {})
         \cup (IF "properties" \in Keys(o) THEN TypesIn(Lookup(o, "properties")) ELSE {})
         \cup (IF "items" \in Keys(o) THEN TypesIn(Lookup(o, "items")) ELSE {})
    ELSE {}

\* the <<propertyName, propertyType>> of each top-level entry, in order
NameTypes(doc) ==
    [i \in 1..Len(doc[2]) |->
        <<Lookup(doc[2][i], "propertyName")[2], Lookup(doc[2][i], "propertyType")[2]>>]

\* C9 as stated: every type of every advertised schema is one of string,
\* number, boolean, datetime, object, array; the simple sensor schema is the
\* six fields below in order; the complex schema's timestamp is a datetime.
C9_TypesLowerCase ==
    (tool \in SchemaTools /\ document # <<>>) =>
        LET doc == json_loads(document)
        IN  /\ TypesIn(doc) \subseteq
                  {"string", "number", "boolean", "datetime", "object", "array"}
            /\ tool = "save_simple_sensor_data" =>
                  NameTypes(doc) =
                     << <<"sensor_id", "string">>, <<"metric_name", "string">>,
                        <<"value", "number">>, <<"unit", "string">>,
                        <<"timestamp", "datetime">>, <<"IsCalibrated", "boolean">> >>
            /\ tool = "save_complex_sensor_data" =>
                  <<"timestamp", "datetime">>
                      \in {NameTypes(doc)[i] : i \in 1..Len(doc[2])}

\* C9 (amended): the same, with the date-time tag spelled DateTime, as the
\* schemas advertise it.
C9_TypesAsAdvertised ==
    (tool \in SchemaTools /\ document # <<>>) =>
        LET doc == json_loads(document)
        IN  /\ TypesIn(doc) \subseteq
                  {"string", "number", "boolean", "DateTime", "object", "array"}
            /\ tool = "save_simple_sensor_data" =>
                  NameTypes(doc) =
                     << <<"sensor_id", "string">>, <<"metric_name", "string">>,
                        <<"value", "number">>, <<"unit", "string">>,
                        <<"timestamp", "DateTime">>, <<"IsCalibrated", "boolean">> >>
            /\ tool = "save_complex_sensor_data" =>
                  <<"timestamp", "DateTime">>
                      \in {NameTypes(doc)[i] : i \in 1..Len(doc[2])}

C9_Witness ==
    /\ tool = "save_simple_sensor_data"
    /\ document # <<>>
    /\ "DateTime" \in TypesIn(json_loads(document))

====
